---- MODULE Spec2Model ----
(***************************************************************************)
(* Model of src/app.py: a Flask polling application over three SQLite     *)
(* tables (poll, option, vote), the seeding routine run from the          *)
(* before_request hook, and the route handlers with their cookies.        *)
(*                                                                         *)
(* Requests are served by threads (app.run is threaded), so the steps of  *)
(* the seeding routine of different requests interleave; every commit is  *)
(* one atomic step.  A client sends one request at a time and keeps the   *)
(* cookies the responses set.  The process runs in the directory of       *)
(* app.py, so the file tested by init_db is the database file.            *)
(*                                                                         *)
(* The 'option' form field is text; SQLite's INTEGER affinity turns a     *)
(* digit string into the number, and any other text equals no option id,  *)
(* so the field is modelled by a number, 0 standing for every value that  *)
(* is no option id.  Row ids are handed out as max + 1, rows are never    *)
(* deleted.  Of the outcomes of random.choice two are explored.           *)
(*                                                                         *)
(* The variable last records the request answered by a step and its       *)
(* response, until the response is delivered; SpecStore is the same       *)
(* program with that record switched off, for the properties of the       *)
(* tables alone.                                                           *)
(***************************************************************************)
EXTENDS Integers, Sequences, FiniteSets, TLC

\* ---------------------------------------------------------------- bounds
MaxCreated == 1        \* polls created through /create
MaxBallots == 2        \* votes submitted through the vote route

\* ------------------------------------------------------ program constants
SEED_POLLS == 3        \* len(seed_polls)
SEED_OPTIONS == 4      \* len(poll_data['options'])
SEED_VOTES == 50       \* range(50)
ADMIN_USERNAME == "admin"
ADMIN_PASSWORD == "admin"
SALT == "salt"         \* bcrypt.gensalt(), drawn once at import

None == "<None>"       \* request.form.get of a missing field
NoOption == -1         \* 'option' field missing or empty

Clients == {1, 2}      \* two browsers, each with its own cookie jar
Administrator == 1     \* the browser of the one who knows the password
PollIdValues == {1, SEED_POLLS + 1}
OptionValues == {0, 1}   \* no option has id 0; option 1 belongs to poll 1

SeedQuestions == <<"language", "framework", "weekend">>
SeedTexts == <<"o1", "o2", "o3", "o4">>

VARIABLES
    fileExists,   \* the file data/polls.db is there
    Poll,         \* table poll:   set of [id, question]
    Option,       \* table option: set of [id, text, poll_id]
    Vote,         \* table vote:   the option_id of the row of each id, 1..Len(Vote)
    cookies,      \* per client: [admin_logged_in : BOOLEAN, voted : SUBSET Nat]
    pc,           \* per client: where its request is being handled
    last,         \* the request answered by the last step and its response
    observed,     \* whether the answers are recorded in last
    seedRuns,     \* history: how often the body of init_db was entered
    ballots       \* history: votes persisted per client and poll by vote()

vars == <<fileExists, Poll, Option, Vote, cookies, pc, last, observed, seedRuns, ballots>>
store == <<Poll, Option, Vote>>

\* ------------------------------------------------------------- helpers
Max(S) == IF S = {} THEN 0 ELSE CHOOSE m \in S : \A x \in S : x <= m

Ids(T) == {r.id : r \in T}

RECURSIVE SumOver(_, _)
SumOver(f, S) ==
    IF S = {} THEN 0
    ELSE LET x == CHOOSE y \in S : TRUE IN f[x] + SumOver(f, S \ {x})

RECURSIVE Sorted(_)
Sorted(S) ==
    IF S = {} THEN <<>>
    ELSE LET m == CHOOSE y \in S : \A x \in S : y <= x IN <<m>> \o Sorted(S \ {m})

RECURSIVE Filter(_)
Filter(s) ==
    IF s = <<>> THEN <<>>
    ELSE IF Head(s) # "" THEN <<Head(s)>> \o Filter(Tail(s)) ELSE Filter(Tail(s))

\* ------------------------------------------------------------- models
\* Poll.options and Option.votes, the two relationships
options(p) == {o \in Option : o.poll_id = p}

votes(o) == {v \in DOMAIN Vote : Vote[v] = o}

\* the join without its filter on the poll
total_votes_unfiltered(p) == Len(Vote)

\* Poll.total_votes: count(Vote.id) of Vote JOIN Option WHERE Option.poll_id = p
total_votes(p) ==
    Cardinality({jo \in (DOMAIN Vote) \X {o \in Option : o.poll_id = p} : Vote[jo[1]] = jo[2].id})

\* Option.vote_count: len(self.votes)
vote_count(o) == Cardinality(votes(o))

\* ------------------------------------------------------------ responses
Response(st, b, loc, p, f) ==
    [status |-> st, body |-> b, location |-> loc, poll_id |-> p, flash |-> f]

render_template(t, f) == Response(200, t, "", 0, f)
redirect(loc, p, f) == Response(302, "", loc, p, f)
NotFound == Response(404, "", "", 0, "")
ServerError == Response(500, "", "", 0, "")
NoResponse == Response(0, "", "", 0, "")

\* ------------------------------------------------------------- requests
Request(r, m, p, o, q, os, u, pw) ==
    [route |-> r, method |-> m, poll_id |-> p, option |-> o, question |-> q,
     options |-> os, username |-> u, password |-> pw]

Simple(r, m) == Request(r, m, 0, NoOption, None, <<>>, None, None)

FormOptions == {<<"A">>, <<"A", "">>, <<"A", "", "B">>}

Requests ==
    {Simple(r, "GET") : r \in {"home", "create", "login", "logout", "health"}}
    \cup {Request(r, "GET", p, NoOption, None, <<>>, None, None) :
            r \in {"poll_results", "vote"}, p \in PollIdValues}
    \cup {Request("vote", "POST", p, o, None, <<>>, None, None) :
            p \in PollIdValues, o \in OptionValues \cup {NoOption}}
    \cup {Request("create", "POST", 0, NoOption, q, os, None, None) :
            q \in {None, "", "Q"}, os \in FormOptions}
    \cup {Request("login", "POST", 0, NoOption, None, <<>>, u, pw) :
            u \in {"admin", "bob"}, pw \in {None, "admin", "wrong"}}

NoRequest == Simple("none", "GET")

\* the requests client c sends: only the administrator types the right password
Sends(c) ==
    {r \in Requests :
        (r.username = ADMIN_USERNAME /\ r.password = ADMIN_PASSWORD) => c = Administrator}

Event(c, r, a) == [client |-> c, request |-> r, response |-> a]

NoEvent == Event(0, NoRequest, NoResponse)

\* ----------------------------------------------------------------- init
Start ==
    /\ fileExists = FALSE
    /\ Poll = {}
    /\ Option = {}
    /\ Vote = <<>>
    /\ cookies = [c \in Clients |-> [admin_logged_in |-> FALSE, voted |-> {}]]
    /\ pc = [c \in Clients |-> "idle"]
    /\ last = NoEvent
    /\ seedRuns = 0
    /\ ballots = [c \in Clients |-> [p \in PollIdValues |-> 0]]

Init == Start /\ observed = TRUE

\* the same deployment with the answers left unrecorded
InitStore == Start /\ observed = FALSE

\* ------------------------------------------------------ password verifier
\* a verifier that accepts every password
checkpw_any(password, hashed) == TRUE

hashpw(password, salt) == <<salt, password>>

checkpw(password, hashed) == hashpw(password, hashed[1]) = hashed

ADMIN_PASSWORD_HASH == hashpw(ADMIN_PASSWORD, SALT)

\* ----------------------------------------------------- request lifecycle
\* the thread of client c is at the given place and no response is on the wire
At(c, place) == last = NoEvent /\ pc[c] = place

Created == {p \in Poll : p.question = "Q"}

Cast == SumOver([c \in Clients |-> SumOver(ballots[c], PollIdValues)], Clients)

\* the test looks for the file where it never is
exists_elsewhere == FALSE

\* the cookie tests left out
admin_logged_in_unchecked(c) == TRUE

voted_unchecked(c, poll_id) == FALSE

\* os.path.exists('data/polls.db')
exists == fileExists

\* 'admin_logged_in' in request.cookies; f'voted_{poll_id}' in request.cookies
admin_logged_in(c) == cookies[c].admin_logged_in

voted(c, poll_id) == poll_id \in cookies[c].voted

\* a request of a client arrives and the hook, which does not read it, finds
\* no database file (init_db, line 38) and enters the seeding routine
InitDbCheck(c) ==
    /\ At(c, "idle")
    /\ ~ exists
    /\ pc' = [pc EXCEPT ![c] = "create_all"]
    /\ seedRuns' = seedRuns + 1
    /\ UNCHANGED <<fileExists, Poll, Option, Vote, cookies, last, observed, ballots>>

\* init_db, line 39: db.create_all() creates the file and the tables
CreateAll(c) ==
    /\ At(c, "create_all")
    /\ fileExists' = TRUE
    /\ pc' = [pc EXCEPT ![c] = "seed_polls"]
    /\ UNCHANGED <<Poll, Option, Vote, cookies, last, observed, seedRuns, ballots>>

NewPolls(base) ==
    {[id |-> base + i, question |-> SeedQuestions[i]] : i \in 1..SEED_POLLS}

NewOptions(pbase, obase) ==
    {[id |-> obase + (i - 1) * SEED_OPTIONS + j, text |-> SeedTexts[j], poll_id |-> pbase + i] :
        i \in 1..SEED_POLLS, j \in 1..SEED_OPTIONS}

\* init_db, lines 41-53: the seed polls and their options, one commit
SeedPolls(c) ==
    /\ At(c, "seed_polls")
    /\ Poll' = Poll \cup NewPolls(Max(Ids(Poll)))
    /\ Option' = Option \cup NewOptions(Max(Ids(Poll)), Max(Ids(Option)))
    /\ pc' = [pc EXCEPT ![c] = "seed_votes"]
    /\ UNCHANGED <<fileExists, Vote, cookies, last, observed, seedRuns, ballots>>

\* one vote short
NewVotesShort(targets) ==
    LET t == Sorted(targets) IN [i \in 1..(SEED_VOTES - 1) |-> t[((i - 1) % Len(t)) + 1]]

\* the outcomes of the 50 calls of random.choice that are explored: the votes
\* go round all the options, or all fall on the newest option
Targets(all_options) == {all_options, {Max(all_options)}}

NewVotes(targets) ==
    LET t == Sorted(targets) IN [i \in 1..SEED_VOTES |-> t[((i - 1) % Len(t)) + 1]]

\* init_db, lines 56-62: the seed votes, one commit
SeedVotes(c) ==
    /\ At(c, "seed_votes")
    /\ \E targets \in Targets(Ids(Option)) :
            Vote' = Vote \o NewVotes(targets)
    /\ pc' = [pc EXCEPT ![c] = "route"]
    /\ UNCHANGED <<fileExists, Poll, Option, cookies, last, observed, seedRuns, ballots>>

\* the view function can be called for client c: the hook has seeded the
\* store, or the request arrives and the hook finds the database file (the
\* file is never removed, so this test and the view function are one step)
Ready(c) == At(c, "route") \/ (At(c, "idle") /\ exists)

Routed(c, r, name) == r.route = name /\ Ready(c)

\* the view function returns response a to request r
Reply(c, r, a) ==
    /\ last' = IF observed THEN Event(c, r, a) ELSE NoEvent
    /\ pc' = [pc EXCEPT ![c] = "idle"]
    /\ UNCHANGED <<fileExists, observed, seedRuns>>

\* ----------------------------------------------------------------- routes
home(c, r) ==
    /\ Routed(c, r, "home")
    /\ Reply(c, r, render_template("home.html", ""))
    /\ UNCHANGED <<Poll, Option, Vote, cookies, ballots>>

poll_results(c, r) ==
    /\ Routed(c, r, "poll_results")
    /\ IF r.poll_id \in Ids(Poll)
         THEN Reply(c, r, Response(200, "results.html", "", r.poll_id, ""))
         ELSE Reply(c, r, NotFound)
    /\ UNCHANGED <<Poll, Option, Vote, cookies, ballots>>

vote(c, r) ==
    LET poll_id == r.poll_id
        option_id == r.option
    IN
    /\ Routed(c, r, "vote")
    /\ IF poll_id \notin Ids(Poll) THEN
            /\ Reply(c, r, NotFound)
            /\ UNCHANGED <<Vote, cookies, ballots>>
       ELSE IF r.method = "POST" /\ voted(c, poll_id) THEN
            /\ Reply(c, r, redirect("poll_results", poll_id, "You have already voted in this poll."))
            /\ UNCHANGED <<Vote, cookies, ballots>>
       ELSE IF r.method = "POST" /\ option_id # NoOption THEN
            /\ Cast < MaxBallots
            /\ Vote' = Append(Vote, option_id)
            /\ cookies' = [cookies EXCEPT ![c].voted = @ \cup {poll_id}]
            /\ ballots' = [ballots EXCEPT ![c][poll_id] = @ + 1]
            /\ Reply(c, r, redirect("poll_results", poll_id, "Your vote has been counted!"))
       ELSE IF r.method = "POST" THEN
            /\ Reply(c, r, render_template("vote.html", "Please select an option."))
            /\ UNCHANGED <<Vote, cookies, ballots>>
       ELSE
            /\ Reply(c, r, render_template("vote.html", ""))
            /\ UNCHANGED <<Vote, cookies, ballots>>
    /\ UNCHANGED <<Poll, Option>>

\* a single option is let through
InvalidBelowOne(question, opts) == question \in {None, ""} \/ Len(opts) < 1

Invalid(question, opts) == question \in {None, ""} \/ Len(opts) < 2

create_poll(c, r) ==
    LET opts == Filter(r.options)
        pid == Max(Ids(Poll)) + 1
        obase == Max(Ids(Option))
    IN
    /\ Routed(c, r, "create")
    /\ IF ~ admin_logged_in(c) THEN
            /\ Reply(c, r, redirect("login", 0, ""))
            /\ UNCHANGED <<Poll, Option>>
       ELSE IF r.method = "POST" /\ Invalid(r.question, opts) THEN
            /\ Reply(c, r, render_template("create_poll.html",
                                           "Please provide a question and at least two options."))
            /\ UNCHANGED <<Poll, Option>>
       ELSE IF r.method = "POST" THEN
            /\ Cardinality(Created) < MaxCreated
            /\ Poll' = Poll \cup {[id |-> pid, question |-> r.question]}
            /\ Option' = Option \cup
                 {[id |-> obase + i, text |-> opts[i], poll_id |-> pid] : i \in 1..Len(opts)}
            /\ Reply(c, r, redirect("home", 0, "Poll created successfully!"))
       ELSE
            /\ Reply(c, r, render_template("create_poll.html", ""))
            /\ UNCHANGED <<Poll, Option>>
    /\ UNCHANGED <<Vote, cookies, ballots>>

login(c, r) ==
    LET username == r.username
        password == r.password
    IN
    /\ Routed(c, r, "login")
    /\ IF r.method = "POST" /\ username = ADMIN_USERNAME /\ password = None THEN
            \* password.encode on None raises AttributeError
            /\ Reply(c, r, ServerError)
            /\ UNCHANGED cookies
       ELSE IF r.method = "POST" /\ username = ADMIN_USERNAME
                /\ checkpw(password, ADMIN_PASSWORD_HASH) THEN
            /\ cookies' = [cookies EXCEPT ![c].admin_logged_in = TRUE]
            /\ Reply(c, r, redirect("create_poll", 0, ""))
       ELSE IF r.method = "POST" THEN
            /\ Reply(c, r, render_template("login.html", "Invalid credentials."))
            /\ UNCHANGED cookies
       ELSE
            /\ Reply(c, r, render_template("login.html", ""))
            /\ UNCHANGED cookies
    /\ UNCHANGED <<Poll, Option, Vote, ballots>>

logout(c, r) ==
    /\ Routed(c, r, "logout")
    /\ cookies' = [cookies EXCEPT ![c].admin_logged_in = FALSE]
    /\ Reply(c, r, redirect("home", 0, ""))
    /\ UNCHANGED <<Poll, Option, Vote, ballots>>

health(c, r) ==
    /\ Routed(c, r, "health")
    /\ Reply(c, r, Response(200, "{status: ok}", "", 0, ""))
    /\ UNCHANGED <<Poll, Option, Vote, cookies, ballots>>

\* the response reaches the client
Deliver ==
    /\ last # NoEvent
    /\ last' = NoEvent
    /\ UNCHANGED <<fileExists, Poll, Option, Vote, cookies, pc, observed, seedRuns, ballots>>

Step ==
    \E c \in Clients :
        \/ InitDbCheck(c)
        \/ CreateAll(c)
        \/ SeedPolls(c)
        \/ SeedVotes(c)
        \/ Ready(c) /\ \E r \in Sends(c) : home(c, r)
        \/ Ready(c) /\ \E r \in Sends(c) : poll_results(c, r)
        \/ Ready(c) /\ \E r \in Sends(c) : vote(c, r)
        \/ Ready(c) /\ \E r \in Sends(c) : create_poll(c, r)
        \/ Ready(c) /\ \E r \in Sends(c) : login(c, r)
        \/ Ready(c) /\ \E r \in Sends(c) : logout(c, r)
        \/ Ready(c) /\ \E r \in Sends(c) : health(c, r)

Next == Deliver \/ Step

Spec == Init /\ [][Next]_vars

SpecStore == InitStore /\ [][Step]_vars

TypeOK ==
    /\ fileExists \in BOOLEAN
    /\ \A c \in Clients : pc[c] \in {"idle", "create_all", "seed_polls", "seed_votes", "route"}
    /\ seedRuns \in 0..Cardinality(Clients)

\* ------------------------------------------------------------ properties
\* the step just taken answered a request of client c to the given route
Answered(c, route, method) ==
    /\ last.client = c
    /\ last.request.route = route
    /\ last.request.method = method

Seeding(c) == pc[c] \in {"create_all", "seed_polls", "seed_votes"}

\* the step enters the next stage of the seeding routine
SeedPollsStep == \E c \in Clients : pc[c] = "seed_polls" /\ pc'[c] = "seed_votes"

SeedVotesStep == \E c \in Clients : pc[c] = "seed_votes" /\ pc'[c] = "route"

\* C1: a client that keeps its cookies gets exactly one vote per poll
\* persisted, by its first POST with an option selected; every later POST to
\* that poll's vote route persists nothing and is answered with the 'already
\* voted' warning and a redirect to the results.
C1_VotePostStep ==
    \A c \in Clients, p \in PollIdValues :
        ( /\ Answered(c, "vote", "POST")'
          /\ last'.request.poll_id = p
          /\ last'.request.option # NoOption
          /\ p \in Ids(Poll) )
        => IF p \in cookies[c].voted
             THEN /\ Vote' = Vote
                  /\ ballots' = ballots
                  /\ last'.response =
                        redirect("poll_results", p, "You have already voted in this poll.")
             ELSE /\ Len(Vote') = Len(Vote) + 1
                  /\ ballots'[c][p] = ballots[c][p] + 1
                  /\ p \in cookies'[c].voted

C1_CookiesKept == \A c \in Clients : cookies[c].voted \subseteq cookies'[c].voted

C1_OneVotePerClient ==
    /\ [](\A c \in Clients, p \in PollIdValues : ballots[c][p] <= 1)
    /\ [][C1_VotePostStep /\ C1_CookiesKept]_vars

C1_Witness ==
    /\ Answered(1, "vote", "POST")
    /\ last.request.option # NoOption
    /\ last.response = redirect("poll_results", 1, "You have already voted in this poll.")
    /\ ballots[1][1] = 1

\* C2: for every poll, total_votes equals the sum of vote_count over the
\* poll's options, and both equal the number of Vote rows whose option_id is
\* the id of an option of the poll.
C2_VotesOf(p) ==
    LET ids == {o.id : o \in {x \in Option : x.poll_id = p}}
    IN {v \in DOMAIN Vote : Vote[v] \in ids}

C2_TotalIsSum ==
    \A p \in Poll :
        /\ total_votes(p.id) =
              SumOver([o \in Ids(options(p.id)) |-> vote_count(o)], Ids(options(p.id)))
        /\ total_votes(p.id) = Cardinality(C2_VotesOf(p.id))

C2_Witness ==
    /\ \E p \in Poll : total_votes(p.id) > 0 /\ total_votes(p.id) < Len(Vote)
    /\ \E v \in DOMAIN Vote : Vote[v] \notin Ids(Option)
    /\ Created # {}

\* C3: every Vote row references exactly one existing Option and every
\* Option row exactly one existing Poll.
C3_ReferentialIntegrity ==
    /\ \A v \in DOMAIN Vote : Cardinality({o \in Option : o.id = Vote[v]}) = 1
    /\ \A o \in Option : Cardinality({p \in Poll : p.id = o.poll_id}) = 1

\* C4: a POST to /create by a logged-in admin with an empty question or
\* fewer than 2 non-empty options leaves the three tables as they were and
\* re-shows the form with the warning.
C4_Rejected(r) ==
    \/ r.question \in {None, ""}
    \/ Cardinality({i \in DOMAIN r.options : r.options[i] # ""}) < 2

C4_InvalidCreateStep ==
    \A c \in Clients :
        ( /\ Answered(c, "create", "POST")'
          /\ cookies[c].admin_logged_in
          /\ C4_Rejected(last'.request) )
        => /\ UNCHANGED store
           /\ last'.response =
                render_template("create_poll.html",
                                "Please provide a question and at least two options.")

C4_InvalidCreatePersistsNothing == [][C4_InvalidCreateStep]_vars

C4_Witness ==
    /\ \E c \in Clients : Answered(c, "create", "POST") /\ cookies[c].admin_logged_in
    /\ last.request.question = "Q"
    /\ last.request.options = <<"A", "">>
    /\ last.response.body = "create_poll.html"

\* C5: the body of the seeding routine is executed at most once.
C5_SeedsAtMostOnce == seedRuns <= 1

\* C6 as stated: after the first run of the seeding routine exactly 3 polls
\* with 4 options each and exactly 150 votes exist, each vote referencing a
\* seeded option.
C6_SeededAlone ==
    /\ seedRuns = 1
    /\ \A c \in Clients : ~ Seeding(c)
    /\ Created = {}
    /\ Cast = 0

C6_Shape(n) ==
    /\ Cardinality(Poll) = 3
    /\ \A p \in Poll : Cardinality({o \in Option : o.poll_id = p.id}) = 4
    /\ Cardinality(Option) = 12
    /\ Len(Vote) = n
    /\ \A v \in DOMAIN Vote : Vote[v] \in Ids(Option)

C6_Seed150 == C6_SeededAlone => C6_Shape(150)

\* C6 amended: every run of the seeding routine adds exactly 3 polls with 4
\* options each and then exactly 50 votes, each referencing an option in the
\* store; after a first run that ran alone that is 3 polls, 12 options and 50
\* votes, each referencing one of the 12 seeded options.
C6_RunAdds ==
    /\ SeedPollsStep =>
          /\ Cardinality(Poll') = Cardinality(Poll) + 3
          /\ Poll \subseteq Poll' /\ Option \subseteq Option'
          /\ Cardinality(Option') = Cardinality(Option) + 12
          /\ \A p \in Poll' \ Poll :
                Cardinality({o \in Option' \ Option : o.poll_id = p.id}) = 4
    /\ SeedVotesStep =>
          /\ Len(Vote') = Len(Vote) + 50
          /\ SubSeq(Vote', 1, Len(Vote)) = Vote
          /\ \A v \in (Len(Vote) + 1)..Len(Vote') : Vote'[v] \in Ids(Option)

C6_Seed50 == [](C6_SeededAlone => C6_Shape(50)) /\ [][C6_RunAdds]_vars

C6_Witness == C6_SeededAlone /\ Len(Vote) = 50

\* C7: /create without the admin_logged_in cookie is answered with a redirect
\* to login and creates nothing; polls and options come only from seeding or
\* from a /create request that carried the cookie.
C7_NoCookieStep ==
    \A c \in Clients :
        ( /\ last'.client = c
          /\ last'.request.route = "create"
          /\ ~ cookies[c].admin_logged_in )
        => /\ last'.response = redirect("login", 0, "")
           /\ UNCHANGED <<Poll, Option>>

C7_CreatedByAdmin ==
    (Poll' # Poll \/ Option' # Option)
        => \/ SeedPollsStep
           \/ \E c \in Clients :
                /\ Answered(c, "create", "POST")'
                /\ cookies[c].admin_logged_in

C7_OnlyAdminCreates == [][C7_NoCookieStep /\ C7_CreatedByAdmin]_vars

C7_Witness ==
    /\ last.request.route = "create"
    /\ last.request.method = "POST"
    /\ last.request.question = "Q"
    /\ last.request.options = <<"A", "", "B">>
    /\ last.response = redirect("login", 0, "")

\* C8: POST /login with admin/admin sets admin_logged_in and redirects to
\* create-poll; with any other username and password it sets no cookie and
\* re-shows the form with 'Invalid credentials'.  (A form with username
\* admin and no password field at all carries no pair: it is answered 500.)
C8_LoginStep ==
    \A c \in Clients :
        ( /\ Answered(c, "login", "POST")'
          /\ (last'.request.username # "admin" \/ last'.request.password # None) )
        => IF last'.request.username = "admin" /\ last'.request.password = "admin"
             THEN /\ cookies'[c].admin_logged_in
                  /\ last'.response = redirect("create_poll", 0, "")
             ELSE /\ cookies' = cookies
                  /\ last'.response = render_template("login.html", "Invalid credentials.")

C9_GetStep ==
    /\ (last' # NoEvent /\ last'.request.method = "GET") => UNCHANGED store
    /\ \A c \in Clients : (fileExists /\ pc[c] = "idle") => pc'[c] = "idle"

C9_ReadOnly == [][C9_GetStep]_vars

C9_Witness ==
    /\ Answered(2, "vote", "GET")
    /\ last.request.poll_id = 1
    /\ last.response = render_template("vote.html", "")
    /\ Len(Vote) > 50

\* C10: an accepted POST to poll P's vote route raises total_votes(P) by
\* exactly 1, leaves total_votes of every other poll unchanged and sets the
\* voted_P cookie, whatever option value was submitted.
C10_AcceptedStep ==
    \A c \in Clients, p \in PollIdValues :
        ( /\ Answered(c, "vote", "POST")'
          /\ last'.request.poll_id = p
          /\ last'.request.option # NoOption
          /\ p \in Ids(Poll)
          /\ p \notin cookies[c].voted )
        => /\ total_votes(p)' = total_votes(p) + 1
           /\ \A q \in Ids(Poll) \ {p} : total_votes(q)' = total_votes(q)
           /\ p \in cookies'[c].voted

C10_VoteCountsForPoll == [][C10_AcceptedStep]_vars

====
